---- MODULE Spec2Model ----
(***************************************************************************)
(* A model of the TruthSocial client (src/truthautonomy/api.py).           *)
(*                                                                         *)
(* Python strings are sequences of one-character strings, so that split,   *)
(* strip, isdigit and int are computed as the code computes them.  An      *)
(* Optional value is a sequence of length 0 (None) or 1 (the value).       *)
(* The HTTP collaborator (cloudscraper), the clock and the file system are *)
(* the environment: every response, every clock value and every open()     *)
(* outcome is a nondeterministic choice from a small set.                  *)
(***************************************************************************)
EXTENDS Integers, Sequences, FiniteSets, TLC

\* ------------------------------------------------------------------ bounds
MaxEntries == 3     \* entries of a Link header given to _get_next_page_link
MaxGets == 2        \* GETs one paginated fetch may issue before the model stops
MaxClock == 2       \* clock readings and X-RateLimit-Reset values range over 0..MaxClock
MaxMaximum == 2     \* maximum / top_num range over -1..MaxMaximum
MaxPageLen == 2     \* items of one page
MaxMedia == 2       \* media references of one send_post
MaxPosts == 2       \* posts of one page of statuses
MaxLimit == 3       \* search: limit ranges over -1..MaxLimit, offset over -MaxLimit..MaxLimit
MaxSearches == 3    \* requests one search may issue before the model stops
MaxTokenLen == 3    \* characters of a bearer token
MaxRequests == 2    \* requests one client may issue before the model stops

\* ------------------------------------------------------- Python primitives
None == <<>>
Some(x) == <<x>>

Whitespace == {" ", "\t"}

Digits == {"0", "1", "2", "3", "4", "5", "6", "7", "8", "9"}

DigitVal(c) ==
  CASE c = "0" -> 0 [] c = "1" -> 1 [] c = "2" -> 2 [] c = "3" -> 3 [] c = "4" -> 4
    [] c = "5" -> 5 [] c = "6" -> 6 [] c = "7" -> 7 [] c = "8" -> 8 [] c = "9" -> 9

DigitChar(n) ==
  CASE n = 0 -> "0" [] n = 1 -> "1" [] n = 2 -> "2" [] n = 3 -> "3" [] n = 4 -> "4"
    [] n = 5 -> "5" [] n = 6 -> "6" [] n = 7 -> "7" [] n = 8 -> "8" [] n = 9 -> "9"

\* str.isdigit(): non-empty and every character a digit
isdigit(s) == s # <<>> /\ \A i \in 1..Len(s) : s[i] \in Digits

\* int(s) of a digit string: its decimal value (leading zeros allowed)
RECURSIVE int(_)
int(s) == IF s = <<>> THEN 0 ELSE 10 * int(SubSeq(s, 1, Len(s) - 1)) + DigitVal(s[Len(s)])

\* the decimal text of a natural number, as a server writes it into a header
RECURSIVE Decimal(_)
Decimal(n) == IF n < 10 THEN <<DigitChar(n)>> ELSE Decimal(n \div 10) \o <<DigitChar(n % 10)>>

\* s.split(sep) for a one-character separator: the pieces between separators
RECURSIVE split(_, _)
split(s, sep) ==
  IF \A i \in 1..Len(s) : s[i] # sep
    THEN <<s>>
    ELSE LET i == CHOOSE k \in 1..Len(s) : s[k] = sep /\ \A j \in 1..(k - 1) : s[j] # sep
         IN  <<SubSeq(s, 1, i - 1)>> \o split(SubSeq(s, i + 1, Len(s)), sep)

\* s.strip(chars): drop leading and trailing characters that are in chars
RECURSIVE lstrip(_, _)
lstrip(s, chars) == IF s # <<>> /\ Head(s) \in chars THEN lstrip(Tail(s), chars) ELSE s

RECURSIVE rstrip(_, _)
rstrip(s, chars) ==
  IF s # <<>> /\ s[Len(s)] \in chars THEN rstrip(SubSeq(s, 1, Len(s) - 1), chars) ELSE s

strip(s, chars) == rstrip(lstrip(s, chars), chars)

\* truth value of an Optional[str]: None and "" are falsy
TruthyStr(o) == o # None /\ o[1] # <<>>

\* truth value of an Optional[int]: None and 0 are falsy
TruthyInt(o) == o # None /\ o[1] # 0

\* ------------------------------------------------------------- Link header
RelNext == <<"r", "e", "l", "=", "\"", "n", "e", "x", "t", "\"">>

RelPrev == <<"r", "e", "l", "=", "\"", "p", "r", "e", "v", "\"">>

\* TruthSocial._get_next_page_link: the for loop over link_header.split(","),
\* from the segment list `links` on
RECURSIVE NextLinkIn(_)
NextLinkIn(links) ==
  IF links = <<>>
    THEN None
    ELSE LET parts == split(Head(links), ";")
         IN  IF Len(parts) = 2 /\ strip(parts[2], Whitespace) = RelNext
               THEN Some(strip(parts[1], {"<", ">"}))
               ELSE NextLinkIn(Tail(links))

_get_next_page_link(link_header) == NextLinkIn(split(link_header, ","))

\* The wire format of one entry, <url>; rel="R", and of a header: the entries
\* joined by sep ("," or ", ").
LinkEntry(e) == <<"<">> \o e.url \o <<">", ";", " ">> \o e.rel

RECURSIVE LinkHeader(_, _)
LinkHeader(entries, sep) ==
  IF entries = <<>> THEN <<>>
  ELSE IF Len(entries) = 1 THEN LinkEntry(entries[1])
  ELSE LinkEntry(entries[1]) \o sep \o LinkHeader(Tail(entries), sep)

UrlA == <<"h", ":", "/", "a", "?", "m", "=", "5">>

UrlB == <<"h", ":", "/", "b">>

LinkUrls == {UrlA, UrlB}

LinkRels == {RelNext, RelPrev}

LinkEntries == [url : LinkUrls, rel : LinkRels]

LinkSeps == {<<",">>, <<",", " ">>}

RECURSIVE SeqsUpTo(_, _)
SeqsUpTo(S, n) ==
  IF n = 0 THEN {<<>>}
  ELSE LET shorter == SeqsUpTo(S, n - 1)
       IN  shorter \cup {Append(s, x) : s \in {t \in shorter : Len(t) = n - 1}, x \in S}

\* what the header means: the url of the first entry whose rel is "next"
RECURSIVE FirstNextUrl(_)
FirstNextUrl(entries) ==
  IF entries = <<>> THEN None
  ELSE IF Head(entries).rel = RelNext THEN Some(Head(entries).url)
  ELSE FirstNextUrl(Tail(entries))

HasNext(entries) == \E i \in 1..Len(entries) : entries[i].rel = RelNext

\* ---------------------------------------------------------------- state
VARIABLES
  \* _get_next_page_link called on its own
  link_entries,   \* the entries the server put into the header
  link_sep,       \* the separator it joined them with
  link_header,    \* the argument: the header text
  link_result,    \* the value returned (None before the call returns)
  link_pc,        \* "call" | "returned"
  \* one paginated fetch, consumed directly or through a derived iterator
  caller,         \* "_get_paginated" | "_paginate_user_list" | "user_likes" | "pull_comments"
  resume,         \* Optional[str]: the resume argument
  maximum,        \* the maximum / top_num argument
  include_all,    \* the include_all argument
  only_first,     \* the only_first argument (pull_comments)
  pg_pc,          \* "start" | "loop" | "page" | "done" | "raised"
  pg_exc,         \* Optional: the exception that ended the fetch
  next_link,      \* Optional[str]: the local next_link
  resp,           \* Optional: the last response (entries: what its Link header was written from)
  n_gets,         \* GETs issued so far
  get_target,     \* Optional[str]: the url the last GET was sent to
  get_cursor,     \* Optional[str]: next_link when the last GET was issued
  slept,          \* Optional[int]: the delay slept after the last response
  now,            \* int(time.time()) as last read, moved on by every sleep
  top_num,        \* the local top_num (user_likes clamps it)
  n_output,       \* the local n_output
  idx,            \* items of the current page the for loop has passed
  page_out,       \* items of the current page yielded to the consumer
  n_pages,        \* pages yielded by _get_paginated
  n_fetched,      \* items of all pages fetched so far that pass pull_comments' filter
  \* one call of send_post or of upload_media
  op,             \* "send_post" | "upload_media"
  media_files,    \* Optional[List[str]]: send_post's argument
  file_path,      \* upload_media's argument when it is called directly
  kwargs,         \* send_post's keyword arguments
  sp_pc,          \* "media" | "call" | "returned" | "raised"
  media_i,        \* media references _handle_media_upload has passed
  media_ids,      \* the local media_ids
  media_src,      \* for each element of media_ids, the index of the reference it came from
  uploads,        \* the file paths POSTed to /api/v1/media, in order
  media_resp,     \* Optional: the last response of /api/v1/media
  n_status_posts, \* POSTs to /api/v1/statuses
  payload,        \* Optional: the JSON payload POSTed to /api/v1/statuses
  status_resp,    \* Optional: the response of /api/v1/statuses
  sp_result,      \* Optional: the object returned
  sp_error,       \* Optional: the exception raised
  \* one iteration of pull_statuses
  created_after,  \* Optional: the cutoff time
  since_id,       \* Optional: the watermark id
  pinned,         \* the pinned argument
  replies,        \* the replies argument
  pl_pc,          \* "lookup" | "fetch" | "posts" | "done" | "raised"
  pl_exc,         \* Optional: the exception that left the generator
  user_id,        \* Optional: the id lookup returned
  pl_url,         \* the query string appended to the statuses url of the last request
  params_max_id,  \* Optional: params["max_id"]
  page_counter,   \* the local page_counter
  keep_going,     \* the local keep_going
  posts,          \* the local posts: the current page, sorted
  post_i,         \* posts of the current page the for loop has finished with
  pl_yielded,     \* the posts yielded, in order
  pl_logged,      \* logger.error calls made
  \* one iteration of search
  limit,          \* the limit argument
  offset_arg,     \* the offset argument
  offset,         \* the local offset (the argument at first)
  s_pc,           \* "loop" | "done"
  n_search,       \* requests to /api/v2/search issued
  req_offset,     \* Optional: params["offset"] of the last request
  search_resp,    \* Optional: the last response
  search_yielded, \* the pages yielded, in order
  \* one client: its construction and the requests its operations issue
  auth_bearer,    \* the auth_bearer argument of TruthSocial(...)
  cl_pc,          \* "new" | "ready" | "raised"
  cl_exc,         \* Optional: the exception __init__ raised
  headers,        \* Optional: self.headers (None while no client exists)
  req,            \* Optional: the last request handed to self.cfs (site, headers)
  n_requests      \* requests handed to self.cfs so far

linkVars == <<link_entries, link_sep, link_header, link_result, link_pc>>

pgArgs == <<caller, resume, maximum, include_all, only_first>>

pgVars == <<caller, resume, maximum, include_all, only_first, pg_pc, pg_exc, next_link,
            resp, n_gets, get_target, get_cursor, slept, now, top_num, n_output, idx, page_out, n_pages, n_fetched>>

spArgs == <<op, media_files, file_path, kwargs>>

spVars == <<op, media_files, file_path, kwargs, sp_pc, media_i, media_ids, media_src, uploads,
            media_resp, n_status_posts, payload, status_resp, sp_result, sp_error>>

plArgs == <<created_after, since_id, pinned, replies>>

plVars == <<created_after, since_id, pinned, replies, pl_pc, pl_exc, user_id, pl_url,
            params_max_id, page_counter, keep_going, posts, post_i, pl_yielded, pl_logged>>

seVars == <<limit, offset_arg, offset, s_pc, n_search, req_offset, search_resp, search_yielded>>

clVars == <<auth_bearer, cl_pc, cl_exc, headers, req, n_requests>>

vars == <<linkVars, pgVars, spVars, plVars, seVars, clVars>>

exceptLink == <<pgVars, spVars, plVars, seVars, clVars>>

exceptPg == <<linkVars, spVars, plVars, seVars, clVars>>

exceptSp == <<linkVars, pgVars, plVars, seVars, clVars>>

exceptPl == <<linkVars, pgVars, spVars, seVars, clVars>>

exceptSe == <<linkVars, pgVars, spVars, plVars, clVars>>

exceptCl == <<linkVars, pgVars, spVars, plVars, seVars>>

\* ---------------------------------------------- _get_next_page_link alone
LinkIdle ==
  /\ link_entries = <<>> /\ link_sep = <<",">> /\ link_header = <<>>
  /\ link_result = None /\ link_pc = "idle"

LinkInit ==
  /\ link_entries \in SeqsUpTo(LinkEntries, MaxEntries)
  /\ link_sep \in LinkSeps
  /\ link_header = LinkHeader(link_entries, link_sep)
  /\ link_result = None
  /\ link_pc = "call"

ParseLink ==
  /\ link_pc = "call"
  /\ link_result' = _get_next_page_link(link_header)
  /\ link_pc' = "returned"
  /\ UNCHANGED <<link_entries, link_sep, link_header>>
  /\ UNCHANGED exceptLink

\* ------------------------------------------------------ the paginated fetch
BASE_URL == <<"h", "t", "t", "p", "s", ":", "/", "/", "t", "r", "u", "t", "h", "s", "o", "c", "i", "a", "l", ".", "c", "o", "m">>

MaxIdParam == <<"?", "m", "a", "x", "_", "i", "d", "=">>

FollowersUrl == <<"/", "a", "p", "i", "/", "v", "1", "/", "a", "c", "c", "o", "u", "n", "t", "s", "/", "1", "/", "f", "o", "l", "l", "o", "w", "e", "r", "s">>

StatusesPrefix == <<"/", "a", "p", "i", "/", "v", "1", "/", "s", "t", "a", "t", "u", "s", "e", "s", "/">>

FavouritedBy == <<"/", "f", "a", "v", "o", "u", "r", "i", "t", "e", "d", "_", "b", "y">>

Descendants == <<"/", "c", "o", "n", "t", "e", "x", "t", "/", "d", "e", "s", "c", "e", "n", "d", "a", "n", "t", "s">>

\* the post argument of user_likes and pull_comments: a post URL
PostArg == <<"h", "t", "t", "p", "s", ":", "/", "/", "t", "r", "u", "t", "h", "s", "o", "c", "i", "a", "l", ".", "c", "o", "m", "/", "@", "u", "/", "4", "2">>

\* post = post.split("/")[-1]
PostId(post) == LET parts == split(post, "/") IN parts[Len(parts)]

Callers == {"_get_paginated", "_paginate_user_list", "user_likes", "pull_comments"}

\* the url each caller hands to _get_paginated
Url(c) ==
  CASE c = "user_likes" -> StatusesPrefix \o PostId(PostArg) \o FavouritedBy
    [] c = "pull_comments" -> StatusesPrefix \o PostId(PostArg) \o Descendants
    [] OTHER -> FollowersUrl

\* next_link = self.BASE_URL + url; if resume: next_link += f"?max_id={resume}"
FirstLink(url, res) ==
  BASE_URL \o url \o (IF TruthyStr(res) THEN MaxIdParam \o res[1] ELSE <<>>)

\* the first argument of self.cfs.get in the while loop
GetUrl(url, cursor) == url

\* top_num = max(1, int(top_num)) in user_likes; the other callers use it as given
ClampTopNum(c, m) == IF c = "user_likes" /\ m < 1 THEN 1 ELSE m

\* LimitReached with > for >=: the output is cut one item late
LimitReachedLate(c, all, n, m) ==
  IF c = "_paginate_user_list" THEN n > m ELSE ~all /\ n > m

\* the test after n_output += 1 that ends a derived iterator
LimitReached(c, all, n, m) ==
  IF c = "_paginate_user_list" THEN n >= m ELSE ~all /\ n >= m

\* pull_comments yields a comment when
\* (only_first and comment["in_reply_to_id"] == post) or not only_first
Passes(c, first, item) ==
  c # "pull_comments" \/ (first /\ item.in_reply_to_id = PostId(PostArg)) \/ ~first

Yielded(c, first, items) == LET P(item) == Passes(c, first, item) IN SelectSeq(items, P)

\* time.sleep(delay) raises ValueError for a negative delay
SleepRaises(delay) == delay < 0

\* resp.headers.get(name, default)
HeaderGet(h, default) == IF h = None THEN default ELSE h[1]

\* --- the environment of the fetch
PrevEntry == [url |-> UrlB, rel |-> RelPrev]

NextEntry == [url |-> UrlA, rel |-> RelNext]

\* Link headers of a response: absent, or entries joined by ", ".  The derived
\* iterators read the pages, not the headers: their responses carry one header
\* of each kind (no next link, a next link).
PagLinkEntries(c) ==
  IF c = "_get_paginated"
    THEN {<<PrevEntry>>, <<NextEntry>>, <<PrevEntry, NextEntry>>}
    ELSE {<<NextEntry>>}

\* rate-limit headers: both absent, or both present
RateHeaders(c) ==
  {[remaining |-> None, reset |-> None]}
  \cup {[remaining |-> Some(Decimal(0)), reset |-> Some(Decimal(t))] :
          t \in (IF c = "_get_paginated" THEN 0..MaxClock ELSE {1})}
  \cup (IF c = "_get_paginated"
          THEN {[remaining |-> Some(Decimal(1)), reset |-> Some(Decimal(MaxClock))]}
          ELSE {})

AccountItems == {[id |-> <<"7">>]}

CommentItems == {[id |-> <<"7">>, in_reply_to_id |-> <<"4", "2">>],
                 [id |-> <<"8">>, in_reply_to_id |-> <<"7">>]}

\* pages: lists of comments for pull_comments, lists of accounts otherwise; the
\* direct consumer of _get_paginated never looks into a page
PagePool(c) ==
  IF c = "_get_paginated" THEN {<<>>, <<[id |-> <<"7">>]>>}
  ELSE SeqsUpTo(IF c = "pull_comments" THEN CommentItems ELSE AccountItems, MaxPageLen)

Resumes == {None, Some(<<"5">>)}

Maximums == (-1)..MaxMaximum

\* --- the actions
PgIdle ==
  /\ caller = "none" /\ resume = None /\ maximum = 0 /\ include_all = FALSE
  /\ only_first = FALSE /\ pg_pc = "idle" /\ pg_exc = None /\ next_link = None
  /\ resp = None /\ n_gets = 0 /\ get_target = None
  /\ get_cursor = None /\ slept = None /\ now = 0
  /\ top_num = 0 /\ n_output = 0 /\ idx = 0 /\ page_out = <<>> /\ n_pages = 0
  /\ n_fetched = 0

PgInit ==
  /\ caller \in Callers
  /\ resume \in (IF caller \in {"_get_paginated", "_paginate_user_list"} THEN Resumes ELSE {None})
  /\ maximum \in (IF caller = "_get_paginated" THEN {0} ELSE Maximums)
  /\ include_all \in (IF caller \in {"user_likes", "pull_comments"} THEN BOOLEAN ELSE {FALSE})
  /\ only_first \in (IF caller = "pull_comments" THEN BOOLEAN ELSE {FALSE})
  /\ pg_pc = "start" /\ pg_exc = None /\ next_link = None
  /\ resp = None /\ n_gets = 0 /\ get_target = None
  /\ get_cursor = None /\ slept = None /\ now = 0
  /\ top_num = 0 /\ n_output = 0 /\ idx = 0 /\ page_out = <<>> /\ n_pages = 0
  /\ n_fetched = 0

\* the generator bodies up to the first test of `while next_link`
PgStart ==
  /\ pg_pc = "start"
  /\ next_link' = Some(FirstLink(Url(caller), resume))
  /\ top_num' = ClampTopNum(caller, maximum)
  /\ n_output' = 0
  /\ pg_pc' = "loop"
  /\ UNCHANGED <<pgArgs, pg_exc, resp, n_gets, get_target, get_cursor,
                 slept, now, idx, page_out, n_pages, n_fetched>>
  /\ UNCHANGED exceptPg

\* one turn of the while loop up to `yield resp.json()`
GetPage ==
  /\ pg_pc = "loop"
  /\ TruthyStr(next_link)
  /\ n_gets < MaxGets
  /\ \E es \in {<<>>} \cup PagLinkEntries(caller) :
       LET link_header_ == HeaderGet(IF es = <<>> THEN None
                                      ELSE Some(LinkHeader(es, <<",", " ">>)), <<>>)
           found == _get_next_page_link(link_header_)
       IN  \E rate \in RateHeaders(caller), page \in PagePool(caller) :
             /\ resp' = Some([entries |-> es, link |-> link_header_,
                              remaining |-> rate.remaining, reset |-> rate.reset,
                              json |-> page])
             /\ next_link' = found
             /\ n_fetched' = n_fetched + Len(Yielded(caller, only_first, page))
  /\ get_target' = Some(GetUrl(Url(caller), next_link[1]))
  /\ get_cursor' = next_link
  /\ slept' = None
  /\ n_gets' = n_gets + 1
  /\ n_pages' = n_pages + 1
  /\ idx' = 0
  /\ page_out' = <<>>
  /\ pg_pc' = "page"
  /\ UNCHANGED <<pgArgs, pg_exc, now, top_num, n_output>>
  /\ UNCHANGED exceptPg

\* `while next_link` finds next_link falsy: the generator ends
PgFinish ==
  /\ pg_pc = "loop"
  /\ ~TruthyStr(next_link)
  /\ pg_pc' = "done"
  /\ UNCHANGED <<pgArgs, pg_exc, next_link, resp, n_gets, get_target, get_cursor,
                 slept, now, top_num, n_output, idx, page_out, n_pages,
                 n_fetched>>
  /\ UNCHANGED exceptPg

\* a derived iterator passes one item of the page: yield, count, test the limit
YieldItem ==
  /\ pg_pc = "page"
  /\ caller # "_get_paginated"
  /\ idx < Len(resp[1].json)
  /\ LET item == resp[1].json[idx + 1]
     IN  IF Passes(caller, only_first, item)
           THEN /\ page_out' = Append(page_out, item)
                /\ n_output' = n_output + 1
                /\ pg_pc' = IF LimitReached(caller, include_all, n_output + 1,
                                            IF caller = "_paginate_user_list" THEN maximum ELSE top_num)
                              THEN "done" ELSE "page"
           ELSE UNCHANGED <<page_out, n_output, pg_pc>>
  /\ idx' = idx + 1
  /\ UNCHANGED <<pgArgs, pg_exc, next_link, resp, n_gets, get_target, get_cursor,
                 slept, now, top_num, n_pages, n_fetched>>
  /\ UNCHANGED exceptPg

\* the consumer asks for the next page: _check_ratelimit(resp), then back to the
\* while test.  The clock is read only when remaining is 0; it never runs backwards.
CheckRatelimit ==
  /\ pg_pc = "page"
  /\ caller = "_get_paginated" \/ idx = Len(resp[1].json)
  /\ LET r == resp[1]
     IN  IF r.remaining # None /\ int(r.remaining[1]) = 0
           THEN \E time \in now..MaxClock :
                  LET delay == int(r.reset[1]) - time
                  IN  IF SleepRaises(delay)
                        THEN /\ pg_pc' = "raised"
                             /\ pg_exc' = Some("ValueError")
                             /\ now' = time
                             /\ UNCHANGED slept
                        ELSE /\ now' = time + delay
                             /\ slept' = Some(delay)
                             /\ pg_pc' = "loop"
                             /\ UNCHANGED pg_exc
           ELSE /\ pg_pc' = "loop"
                /\ UNCHANGED <<now, slept, pg_exc>>
  /\ UNCHANGED <<pgArgs, next_link, resp, n_gets, get_target, get_cursor,
                 top_num, n_output, idx, page_out, n_pages, n_fetched>>
  /\ UNCHANGED exceptPg

\* -------------------------------------------------- send_post, upload_media
\* data.get(key): Some(value), or None when the key is missing
Get(data, key) == IF key \in DOMAIN data THEN Some(data[key]) ELSE None

\* data.get(key, default)
GetOr(data, key, default) == IF key \in DOMAIN data THEN data[key] ELSE default

EmptyDict == <<>>

\* models.MediaResponse.__init__
MediaResponse(data) ==
  [class |-> "MediaResponse", id |-> Get(data, "id"), type |-> Get(data, "type"),
   url |-> Get(data, "url"), preview_url |-> Get(data, "preview_url"),
   text_url |-> Get(data, "text_url"), meta |-> Get(data, "meta")]

\* models.PostResponse.__init__
PostResponse(data) ==
  LET account_data == GetOr(data, "account", EmptyDict)
      tags == GetOr(data, "tags", <<>>)
  IN  [class |-> "PostResponse", id |-> Get(data, "id"), created_at |-> Get(data, "created_at"),
       content |-> Get(data, "content"), visibility |-> Get(data, "visibility"),
       url |-> Get(data, "url"), replies_count |-> Get(data, "replies_count"),
       reblogs_count |-> Get(data, "reblogs_count"),
       favourites_count |-> Get(data, "favourites_count"),
       application |-> Get(GetOr(data, "application", EmptyDict), "name"),
       tags |-> [k \in 1..Len(tags) |-> Get(tags[k], "name")],
       account |-> [username |-> Get(account_data, "username"), id |-> Get(account_data, "id"),
                    url |-> Get(account_data, "url"),
                    created_at |-> Get(account_data, "created_at"),
                    statuses_count |-> Get(account_data, "statuses_count")]]

\* exceptions.TruthSocialAPIError.__init__
TruthSocialAPIError(status_code, message) ==
  [class |-> "TruthSocialAPIError", status_code |-> status_code, message |-> message]

\* IsError with a range test: only statuses from 400 on raise
IsErrorFrom400(status_code) == status_code >= 400

\* `if response.status_code != 200` in send_post and upload_media
IsError(status_code) == status_code # 200

\* ForwardId with the id put in front of the list instead of appended
ForwardIdInFront(ids, media_file) == <<int(media_file)>> \o ids

\* media_ids.append(int(media_file)) in _handle_media_upload
ForwardId(ids, media_file) == Append(ids, int(media_file))

\* TruthSocial._build_post_payload
_build_post_payload(content, ids, visibility, kw) ==
  [status |-> content, media_ids |-> ids, visibility |-> visibility,
   content_type |-> GetOr(kw, "content_type", "text/plain"),
   in_reply_to_id |-> Get(kw, "in_reply_to_id"), quote_id |-> Get(kw, "quote_id"),
   poll |-> Get(kw, "poll"),
   group_timeline_visible |-> GetOr(kw, "group_timeline_visible", FALSE)]

\* UploadOutcome that raises only when the file cannot be opened: the body of a
\* non-200 response is mapped like any other
UploadOutcomeIgnoringStatus(opened, r) ==
  IF ~opened THEN [raised |-> TRUE, value |-> [class |-> "FileNotFoundError"]]
  ELSE [raised |-> FALSE, value |-> MediaResponse(r.json)]

\* TruthSocial.upload_media after the POST: raise on a non-200 response, else map
\* the body; open() failing raises before any POST
UploadOutcome(opened, r) ==
  IF ~opened THEN [raised |-> TRUE, value |-> [class |-> "FileNotFoundError"]]
  ELSE IF IsError(r.status_code)
    THEN [raised |-> TRUE, value |-> TruthSocialAPIError(r.status_code, r.text)]
    ELSE [raised |-> FALSE, value |-> MediaResponse(r.json)]

\* --- the environment of the two calls
MediaRefs == {<<"7">>, <<"1", "2">>, <<"a">>, <<"7", "a">>}

\* the number a numeric reference stands for
RefValue(ref) == CASE ref = <<"7">> -> 7 [] ref = <<"1", "2">> -> 12

MediaJsons == {[id |-> 123, type |-> "image", url |-> "u"], [id |-> 0, type |-> "image"],
               [type |-> "image"]}

PostJsons ==
  {[id |-> 1, content |-> "X", visibility |-> "public", url |-> "u"],
   [id |-> 2, content |-> "Y", visibility |-> "public", url |-> "v", replies_count |-> 0,
    application |-> [name |-> "app"], tags |-> <<[name |-> "t"], [url |-> "w"]>>,
    account |-> [username |-> "me", id |-> "9"]],
   EmptyDict}

\* a 200 response carries a JSON body; any other status carries some text, and the
\* code never decodes it
Responses(jsons) ==
  {[status_code |-> 200, text |-> "json", json |-> j] : j \in jsons}
  \cup {[status_code |-> c, text |-> t, json |-> EmptyDict] :
          c \in {201, 400}, t \in {"Bad Request", ""}}

KwargsPool == {EmptyDict, [in_reply_to_id |-> "5", content_type |-> "text/markdown"]}

MediaFilesPool == {None} \cup {Some(fs) : fs \in SeqsUpTo(MediaRefs, MaxMedia)}

\* `if media_files:` -- None and [] skip the loop
FilesToHandle == IF media_files = None THEN <<>> ELSE media_files[1]

SpIdle ==
  /\ op = "none" /\ media_files = None /\ file_path = <<>> /\ kwargs = EmptyDict
  /\ sp_pc = "idle" /\ media_i = 0 /\ media_ids = <<>> /\ media_src = <<>> /\ uploads = <<>>
  /\ media_resp = None /\ n_status_posts = 0 /\ payload = None /\ status_resp = None
  /\ sp_result = None /\ sp_error = None

SpInit ==
  /\ op \in {"send_post", "upload_media"}
  /\ media_files \in (IF op = "send_post" THEN MediaFilesPool ELSE {None})
  /\ file_path \in (IF op = "upload_media" THEN MediaRefs ELSE {<<>>})
  /\ kwargs \in (IF op = "send_post" THEN KwargsPool ELSE {EmptyDict})
  /\ sp_pc = (IF op = "send_post" THEN "media" ELSE "call")
  /\ media_i = 0 /\ media_ids = <<>> /\ media_src = <<>> /\ uploads = <<>>
  /\ media_resp = None /\ n_status_posts = 0 /\ payload = None /\ status_resp = None
  /\ sp_result = None /\ sp_error = None

\* _handle_media_upload, one reference that is all digits: forwarded as an id
ForwardMediaId ==
  /\ sp_pc = "media"
  /\ media_i < Len(FilesToHandle)
  /\ isdigit(FilesToHandle[media_i + 1])
  /\ media_ids' = ForwardId(media_ids, FilesToHandle[media_i + 1])
  /\ media_src' = Append(media_src, media_i + 1)
  /\ media_i' = media_i + 1
  /\ UNCHANGED <<spArgs, sp_pc, uploads, media_resp, n_status_posts, payload, status_resp,
                 sp_result, sp_error>>
  /\ UNCHANGED exceptSp

\* _handle_media_upload, one other reference: upload_media(media_file), and the id
\* of the response is appended when it is truthy
UploadMediaFile ==
  /\ sp_pc = "media"
  /\ media_i < Len(FilesToHandle)
  /\ ~isdigit(FilesToHandle[media_i + 1])
  /\ \E opened \in BOOLEAN, r \in Responses(MediaJsons) :
       LET media_file == FilesToHandle[media_i + 1]
           out == UploadOutcome(opened, r)
       IN  /\ uploads' = IF opened THEN Append(uploads, media_file) ELSE uploads
           /\ media_resp' = IF opened THEN Some(r) ELSE media_resp
           /\ IF out.raised
                THEN /\ sp_pc' = "raised"
                     /\ sp_error' = Some(out.value)
                     /\ UNCHANGED <<media_ids, media_src, media_i>>
                ELSE /\ media_ids' = IF TruthyInt(out.value.id)
                                       THEN Append(media_ids, out.value.id[1]) ELSE media_ids
                     /\ media_src' = IF TruthyInt(out.value.id)
                                       THEN Append(media_src, media_i + 1) ELSE media_src
                     /\ media_i' = media_i + 1
                     /\ UNCHANGED <<sp_pc, sp_error>>
  /\ UNCHANGED <<spArgs, n_status_posts, payload, status_resp, sp_result>>
  /\ UNCHANGED exceptSp

\* send_post after _handle_media_upload: build the payload, POST it, raise or return
PostStatus ==
  /\ sp_pc = "media"
  /\ media_i = Len(FilesToHandle)
  /\ payload' = Some(_build_post_payload("Hello", media_ids, "public", kwargs))
  /\ n_status_posts' = n_status_posts + 1
  /\ \E r \in Responses(PostJsons) :
       /\ status_resp' = Some(r)
       /\ IF IsError(r.status_code)
            THEN /\ sp_pc' = "raised"
                 /\ sp_error' = Some(TruthSocialAPIError(r.status_code, r.text))
                 /\ UNCHANGED sp_result
            ELSE /\ sp_pc' = "returned"
                 /\ sp_result' = Some(PostResponse(r.json))
                 /\ UNCHANGED sp_error
  /\ UNCHANGED <<spArgs, media_i, media_ids, media_src, uploads, media_resp>>
  /\ UNCHANGED exceptSp

\* upload_media called by the user
UploadMedia ==
  /\ sp_pc = "call"
  /\ \E opened \in BOOLEAN, r \in Responses(MediaJsons) :
       LET out == UploadOutcome(opened, r)
       IN  /\ uploads' = IF opened THEN Append(uploads, file_path) ELSE uploads
           /\ media_resp' = IF opened THEN Some(r) ELSE media_resp
           /\ IF out.raised
                THEN sp_pc' = "raised" /\ sp_error' = Some(out.value) /\ UNCHANGED sp_result
                ELSE sp_pc' = "returned" /\ sp_result' = Some(out.value) /\ UNCHANGED sp_error
  /\ UNCHANGED <<spArgs, media_i, media_ids, media_src, n_status_posts, payload, status_resp>>
  /\ UNCHANGED exceptSp

\* ------------------------------------------------------------ pull_statuses
\* `from dateutil.parser import parse as date_parse`: the name date_parse is bound
\* to the function dateutil.parser.parse, an object with no attribute of its own
date_parse == [kind |-> "function", name |-> "dateutil.parser.parse", attrs |-> {}]

\* obj.attr raises AttributeError unless the object has the attribute
HasAttr(obj, attr) == attr \in obj.attrs

\* sorted(result, key=lambda k: k["id"], reverse=True), by insertion
RECURSIVE InsertDesc(_, _)
InsertDesc(sorted, post) ==
  IF sorted = <<>> THEN <<post>>
  ELSE IF post.id > Head(sorted).id THEN <<post>> \o sorted
  ELSE <<Head(sorted)>> \o InsertDesc(Tail(sorted), post)

RECURSIVE SortedDesc(_)
SortedDesc(result) ==
  IF result = <<>> THEN <<>>
  ELSE InsertDesc(SortedDesc(SubSeq(result, 1, Len(result) - 1)), result[Len(result)])

\* the query string pull_statuses appends to the statuses url
StatusesQuery(pin, rep) ==
  IF pin THEN "?pinned=true&with_muted=true"
  ELSE IF ~rep THEN "?exclude_replies=true" ELSE ""

\* (created_after and post_at <= created_after) or (since_id and post["id"] <= since_id)
AtWatermark(post_at, post_id, after, since) ==
  (after # None /\ post_at <= after[1]) \/ (since # None /\ post_id <= since[1])

\* --- the environment of pull_statuses
\* lookup: the account, an error body without "id", or a failing request
LookupOutcomes == {[kind |-> "account", id |-> 1], [kind |-> "no id"], [kind |-> "exception"]}

StatusPool == {[id |-> 1, created_at |-> 0], [id |-> 2, created_at |-> 1],
               [id |-> 3, created_at |-> 2]}

Distinct(s) == \A k \in 1..Len(s) : \A l \in 1..Len(s) : k # l => s[k].id # s[l].id

StatusPages == {s \in SeqsUpTo(StatusPool, MaxPosts) : s # <<>> /\ Distinct(s)}

\* _get of the statuses url: a list of posts, [], an error body, a body that is
\* not JSON, or a failing request
FetchOutcomes ==
  {[kind |-> "page", result |-> s] : s \in StatusPages}
  \cup {[kind |-> k, result |-> <<>>] : k \in {"empty", "error", "JSONDecodeError", "Exception"}}

PlIdle ==
  /\ created_after = None /\ since_id = None /\ pinned = FALSE /\ replies = FALSE
  /\ pl_pc = "idle" /\ pl_exc = None /\ user_id = None /\ pl_url = "" /\ params_max_id = None
  /\ page_counter = 0 /\ keep_going = FALSE /\ posts = <<>> /\ post_i = 0
  /\ pl_yielded = <<>> /\ pl_logged = 0

PlInit ==
  /\ created_after \in {None} \cup {Some(p.created_at) : p \in StatusPool}
  /\ since_id \in {None} \cup {Some(p.id) : p \in StatusPool}
  /\ pinned \in BOOLEAN
  /\ replies \in BOOLEAN
  /\ pl_pc = "lookup" /\ pl_exc = None /\ user_id = None /\ pl_url = "" /\ params_max_id = None
  /\ page_counter = 0 /\ keep_going = FALSE /\ posts = <<>> /\ post_i = 0
  /\ pl_yielded = <<>> /\ pl_logged = 0

\* params = {}; user_id = self.lookup(username)["id"]; page_counter = 0; keep_going = True
\* (outside the try: what lookup or ["id"] raises leaves the generator)
PullLookup ==
  /\ pl_pc = "lookup"
  /\ \E out \in LookupOutcomes :
       IF out.kind = "account"
         THEN /\ user_id' = Some(out.id)
              /\ keep_going' = TRUE
              /\ pl_pc' = "fetch"
              /\ UNCHANGED pl_exc
         ELSE /\ pl_pc' = "raised"
              /\ pl_exc' = Some(IF out.kind = "no id" THEN "KeyError" ELSE "Exception")
              /\ UNCHANGED <<user_id, keep_going>>
  /\ UNCHANGED <<plArgs, pl_url, params_max_id, page_counter, posts, post_i, pl_yielded,
                 pl_logged>>
  /\ UNCHANGED exceptPl

\* one turn of `while keep_going` up to the for loop: the request in the try, the
\* two except clauses, the error / empty test, the sort, params["max_id"], pinned
PullFetch ==
  /\ pl_pc = "fetch"
  /\ keep_going
  /\ pl_url' = StatusesQuery(pinned, replies)
  /\ \E out \in FetchOutcomes :
       IF out.kind \in {"JSONDecodeError", "Exception"}
         THEN /\ pl_logged' = pl_logged + 1
              /\ pl_pc' = "done"
              /\ UNCHANGED <<page_counter, posts, post_i, params_max_id, keep_going>>
         ELSE IF out.kind \in {"error", "empty"}
           THEN /\ page_counter' = page_counter + 1
                /\ pl_logged' = pl_logged + 1
                /\ pl_pc' = "done"
                /\ UNCHANGED <<posts, post_i, params_max_id, keep_going>>
           ELSE /\ page_counter' = page_counter + 1
                /\ posts' = SortedDesc(out.result)
                /\ params_max_id' = Some(posts'[Len(posts')].id)
                /\ keep_going' = IF pinned THEN FALSE ELSE keep_going
                /\ post_i' = 0
                /\ pl_pc' = "posts"
                /\ UNCHANGED pl_logged
  /\ UNCHANGED <<plArgs, pl_exc, user_id, pl_yielded>>
  /\ UNCHANGED exceptPl

\* one turn of `for post in posts`: date_parse.parse(post["created_at"]), the
\* watermark test, the yield; after the last post, or after the break, the while
\* test again
PullPost ==
  /\ pl_pc = "posts"
  /\ post_i < Len(posts)
  /\ LET post == posts[post_i + 1]
     IN  IF ~HasAttr(date_parse, "parse")
           THEN /\ pl_pc' = "raised"
                /\ pl_exc' = Some("AttributeError")
                /\ UNCHANGED <<keep_going, post_i, pl_yielded>>
           ELSE IF AtWatermark(post.created_at, post.id, created_after, since_id)
             THEN /\ keep_going' = FALSE
                  /\ pl_pc' = "done"
                  /\ UNCHANGED <<pl_exc, post_i, pl_yielded>>
             ELSE /\ pl_yielded' = Append(pl_yielded, post)
                  /\ post_i' = post_i + 1
                  /\ pl_pc' = IF post_i + 1 < Len(posts) THEN "posts"
                              ELSE IF keep_going THEN "fetch" ELSE "done"
                  /\ UNCHANGED <<pl_exc, keep_going>>
  /\ UNCHANGED <<plArgs, user_id, pl_url, params_max_id, page_counter, posts, pl_logged>>
  /\ UNCHANGED exceptPl

\* ------------------------------------------------------------------- search
\* SearchStops without the test of the values: only an empty body ends the search
SearchStopsOnEmptyBody(r) == r = EmptyDict

\* `if not resp or all(not value for value in resp.values())`
SearchStops(r) == r = EmptyDict \/ \A k \in DOMAIN r : r[k] = <<>>

\* AdvanceOffset by one result instead of by the limit
AdvanceOffsetByOne(off, lim) == off + 1

\* `offset += limit`
AdvanceOffset(off, lim) == off + lim

\* --- the environment of search: bodies of /api/v2/search
SearchBodies ==
  {EmptyDict,
   [accounts |-> <<>>, statuses |-> <<>>, hashtags |-> <<>>],
   [accounts |-> <<"a">>, statuses |-> <<>>, hashtags |-> <<>>],
   [accounts |-> <<>>, statuses |-> <<"s", "t">>, hashtags |-> <<"h">>]}

SeIdle ==
  /\ limit = 0 /\ offset_arg = 0 /\ offset = 0 /\ s_pc = "idle" /\ n_search = 0 /\ req_offset = None
  /\ search_resp = None /\ search_yielded = <<>>

SeInit ==
  /\ limit \in (-1)..MaxLimit
  /\ offset_arg \in (-MaxLimit)..MaxLimit
  /\ offset = offset_arg
  /\ s_pc = "loop" /\ n_search = 0 /\ req_offset = None
  /\ search_resp = None /\ search_yielded = <<>>

\* one turn of `while offset < limit`: the request, offset += limit, break or yield
SearchRequest ==
  /\ s_pc = "loop"
  /\ offset < limit
  /\ n_search < MaxSearches
  /\ req_offset' = Some(offset)
  /\ n_search' = n_search + 1
  /\ offset' = AdvanceOffset(offset, limit)
  /\ \E r \in SearchBodies :
       /\ search_resp' = Some(r)
       /\ IF SearchStops(r)
            THEN s_pc' = "done" /\ UNCHANGED search_yielded
            ELSE search_yielded' = Append(search_yielded, r) /\ UNCHANGED s_pc
  /\ UNCHANGED <<limit, offset_arg>>
  /\ UNCHANGED exceptSe

\* `while offset < limit` finds the offset at the limit: the generator ends
SearchExit ==
  /\ s_pc = "loop"
  /\ ~(offset < limit)
  /\ s_pc' = "done"
  /\ UNCHANGED <<limit, offset_arg, offset, n_search, req_offset, search_resp, search_yielded>>
  /\ UNCHANGED exceptSe

\* ----------------------------------------------- TruthSocial.__init__, headers
\* "Bearer " of f"Bearer {auth_bearer}"
BearerPrefix == <<"B", "e", "a", "r", "e", "r", " ">>

\* BearerOf without the scheme: the token alone
BearerOfBare(token) == token

\* f"Bearer {auth_bearer}"
BearerOf(token) == BearerPrefix \o token

AcceptAll == <<"*", "/", "*">>

UserAgent == <<"M", "o", "z", "i", "l", "l", "a", "/", "5", ".", "0", " ", "(", "W", "i", "n", "d", "o", "w", "s", " ", "N", "T", " ", "1", "0", ".", "0", ";", " ", "W", "i", "n", "6", "4", ";", " ", "x", "6", "4", ")", " ", "A", "p", "p", "l", "e", "W", "e", "b", "K", "i", "t", "/", "5", "3", "7", ".", "3", "6", " ", "(", "K", "H", "T", "M", "L", ",", " ", "l", "i", "k", "e", " ", "G", "e", "c", "k", "o", ")", " ", "C", "h", "r", "o", "m", "e", "/", "1", "1", "4", ".", "0", ".", "0", ".", "0", " ", "S", "a", "f", "a", "r", "i", "/", "5", "3", "7", ".", "3", "6">>

ApplicationJson == <<"a", "p", "p", "l", "i", "c", "a", "t", "i", "o", "n", "/", "j", "s", "o", "n">>

\* the dict literal assigned to self.headers
InitialHeaders(token) ==
  [k \in {"Accept", "User-Agent", "Authorization", "Origin", "Referer"} |->
     CASE k = "Accept" -> AcceptAll
       [] k = "User-Agent" -> UserAgent
       [] k = "Authorization" -> BearerOf(token)
       [] k = "Origin" -> BASE_URL
       [] k = "Referer" -> BASE_URL]

\* {**d, key: value}: a new dict, d itself is left as it was
WithEntry(d, key, value) ==
  [k \in DOMAIN d \cup {key} |-> IF k = key THEN value ELSE d[k]]

\* --- the environment: the tokens a caller constructs the client with
TokenChars == {"t", " "}

Tokens == SeqsUpTo(TokenChars, MaxTokenLen)

ClIdle ==
  /\ auth_bearer = <<>> /\ cl_pc = "idle" /\ cl_exc = None /\ headers = None
  /\ req = None /\ n_requests = 0

ClInit ==
  /\ auth_bearer \in Tokens
  /\ cl_pc = "new" /\ cl_exc = None /\ headers = None /\ req = None /\ n_requests = 0

\* TruthSocial.__init__ with a falsy token: raise ValueError before anything is set
ConstructRaises ==
  /\ cl_pc = "new"
  /\ ~TruthyStr(Some(auth_bearer))
  /\ cl_pc' = "raised"
  /\ cl_exc' = Some([class |-> "ValueError", message |-> "Bearer token is required"])
  /\ UNCHANGED <<auth_bearer, headers, req, n_requests>>
  /\ UNCHANGED exceptCl

\* TruthSocial.__init__ with a truthy token: self.headers is assigned
Construct ==
  /\ cl_pc = "new"
  /\ TruthyStr(Some(auth_bearer))
  /\ cl_pc' = "ready"
  /\ headers' = Some(InitialHeaders(auth_bearer))
  /\ UNCHANGED <<auth_bearer, cl_exc, req, n_requests>>
  /\ UNCHANGED exceptCl

\* self.cfs.get(url, params=params, headers=self.headers) in _get_paginated
RequestGetPaginated ==
  /\ cl_pc = "ready"
  /\ n_requests < MaxRequests
  /\ req' = Some([site |-> "_get_paginated", method |-> "GET", headers |-> headers[1]])
  /\ n_requests' = n_requests + 1
  /\ UNCHANGED <<auth_bearer, cl_pc, cl_exc, headers>>
  /\ UNCHANGED exceptCl

\* self.cfs.get(self.BASE_URL + url, params=params, headers=self.headers) in _get
RequestGet ==
  /\ cl_pc = "ready"
  /\ n_requests < MaxRequests
  /\ req' = Some([site |-> "_get", method |-> "GET", headers |-> headers[1]])
  /\ n_requests' = n_requests + 1
  /\ UNCHANGED <<auth_bearer, cl_pc, cl_exc, headers>>
  /\ UNCHANGED exceptCl

\* self.cfs.post(..., headers={**self.headers, "Content-Type": "application/json"},
\* json=payload) in send_post
RequestPostStatus ==
  /\ cl_pc = "ready"
  /\ n_requests < MaxRequests
  /\ req' = Some([site |-> "send_post", method |-> "POST",
                  headers |-> WithEntry(headers[1], "Content-Type", ApplicationJson)])
  /\ n_requests' = n_requests + 1
  /\ UNCHANGED <<auth_bearer, cl_pc, cl_exc, headers>>
  /\ UNCHANGED exceptCl

\* self.cfs.post(self.BASE_URL + "/api/v1/media", headers=self.headers, files=files)
\* in upload_media
RequestPostMedia ==
  /\ cl_pc = "ready"
  /\ n_requests < MaxRequests
  /\ req' = Some([site |-> "upload_media", method |-> "POST", headers |-> headers[1]])
  /\ n_requests' = n_requests + 1
  /\ UNCHANGED <<auth_bearer, cl_pc, cl_exc, headers>>
  /\ UNCHANGED exceptCl

\* ---------------------------------------------------------- specifications
InitLink == LinkInit /\ PgIdle /\ SpIdle /\ PlIdle /\ SeIdle /\ ClIdle

NextLink == ParseLink

SpecLink == InitLink /\ [][NextLink]_vars

InitPaginate == PgInit /\ LinkIdle /\ SpIdle /\ PlIdle /\ SeIdle /\ ClIdle

NextPaginate == PgStart \/ GetPage \/ PgFinish \/ YieldItem \/ CheckRatelimit

SpecPaginate == InitPaginate /\ [][NextPaginate]_vars

InitPost == SpInit /\ LinkIdle /\ PgIdle /\ PlIdle /\ SeIdle /\ ClIdle

NextPost == ForwardMediaId \/ UploadMediaFile \/ PostStatus \/ UploadMedia

SpecPost == InitPost /\ [][NextPost]_vars

InitPull == PlInit /\ LinkIdle /\ PgIdle /\ SpIdle /\ SeIdle /\ ClIdle

NextPull == PullLookup \/ PullFetch \/ PullPost

SpecPull == InitPull /\ [][NextPull]_vars

InitSearch == SeInit /\ LinkIdle /\ PgIdle /\ SpIdle /\ PlIdle /\ ClIdle

NextSearch == SearchRequest \/ SearchExit

SpecSearch == InitSearch /\ [][NextSearch]_vars

InitClient == ClInit /\ LinkIdle /\ PgIdle /\ SpIdle /\ PlIdle /\ SeIdle

NextClient ==
  ConstructRaises \/ Construct \/ RequestGetPaginated \/ RequestGet \/ RequestPostStatus
  \/ RequestPostMedia

SpecClient == InitClient /\ [][NextClient]_vars

\* ------------------------------------------------------------------ claims

\* C3: for a header of entries <url>; rel="R" joined by ", ", _get_next_page_link
\* returns exactly the url of the first entry whose rel is "next", without angle
\* brackets or surrounding whitespace, at whatever position that entry stands, and
\* None when no entry has rel="next".
C3_ExtractsNextUrl ==
  (link_pc = "returned" /\ link_sep = <<",", " ">>) => link_result = FirstNextUrl(link_entries)

\* C1: every GET of the paginated fetch goes to the cursor the loop holds: the
\* first to BASE_URL + url (+ ?max_id=resume), each later one to the next link
\* taken from the response before it.
C1_GetGoesToCursor == n_gets >= 1 => get_target = get_cursor

\* C2: the fetch of a consumer that keeps iterating stops exactly when the Link
\* header lacks a rel="next" entry: every page fetched is yielded, no GET follows
\* a response without such an entry, and the fetch never ends after a response
\* that carries one.
C2_StopsExactlyWithoutNext ==
  caller = "_get_paginated" =>
    /\ n_pages = n_gets
    /\ (pg_pc = "loop" /\ resp # None /\ ~HasNext(resp[1].entries)) => ~TruthyStr(next_link)
    /\ (pg_pc \in {"done", "raised"} /\ resp # None) => ~HasNext(resp[1].entries)

\* C8: after each page the rate-limit headers are checked: with remaining = 0 the
\* fetch sleeps until the reset time has passed before the next GET, for every
\* reset time (also one in the past); otherwise it does not sleep.
C8_SleepsUntilReset ==
  /\ pg_pc # "raised"
  /\ (pg_pc = "loop" /\ resp # None) =>
       IF resp[1].remaining # None /\ int(resp[1].remaining[1]) = 0
         THEN slept # None /\ now >= int(resp[1].reset[1])
         ELSE slept = None

Derived == caller \in {"_paginate_user_list", "user_likes", "pull_comments"}

\* _paginate_user_list has no include_all flag: it always truncates
Truncating == caller = "_paginate_user_list" \/ ~include_all

\* the items of the current page the for loop has not passed yet
RestOfPage == SubSeq(resp[1].json, idx + 1, Len(resp[1].json))

PostFieldsMatch(res, j) ==
  /\ res.class = "PostResponse"
  /\ \A k \in {"id", "created_at", "content", "visibility", "url", "replies_count",
               "reblogs_count", "favourites_count"} :
       res[k] = (IF k \in DOMAIN j THEN <<j[k]>> ELSE <<>>)
  /\ res.application = (IF "application" \in DOMAIN j /\ "name" \in DOMAIN j.application
                          THEN <<j.application.name>> ELSE <<>>)
  /\ Len(res.tags) = (IF "tags" \in DOMAIN j THEN Len(j.tags) ELSE 0)
  /\ \A k \in 1..Len(res.tags) :
       res.tags[k] = (IF "name" \in DOMAIN j.tags[k] THEN <<j.tags[k].name>> ELSE <<>>)
  /\ \A k \in {"username", "id", "url", "created_at", "statuses_count"} :
       res.account[k] = (IF "account" \in DOMAIN j /\ k \in DOMAIN j.account
                           THEN <<j.account[k]>> ELSE <<>>)

\* the fields of a MediaResponse equal the corresponding fields of the body j
MediaFieldsMatch(res, j) ==
  /\ res.class = "MediaResponse"
  /\ \A k \in {"id", "type", "url", "preview_url", "text_url", "meta"} :
       res[k] = (IF k \in DOMAIN j THEN <<j[k]>> ELSE <<>>)

\* the exception a non-200 response r must raise
RaisedFor(r) ==
  /\ sp_pc = "raised"
  /\ sp_result = None
  /\ sp_error = <<[class |-> "TruthSocialAPIError", status_code |-> r.status_code,
                   message |-> r.text]>>

\* C4: a non-200 response makes send_post / upload_media raise TruthSocialAPIError
\* with the response's status and raw body text and return nothing; a 200
\* response makes it return a PostResponse / MediaResponse whose fields are those
\* of the response JSON; each call POSTs once to its endpoint (no retry).
C4_StatusDecidesOutcome ==
  /\ n_status_posts <= 1
  /\ status_resp # None =>
       /\ n_status_posts = 1
       /\ IF status_resp[1].status_code # 200
            THEN RaisedFor(status_resp[1])
            ELSE /\ sp_pc = "returned"
                 /\ sp_error = None
                 /\ sp_result # None
                 /\ PostFieldsMatch(sp_result[1], status_resp[1].json)
  /\ op = "upload_media" =>
       /\ Len(uploads) <= 1
       /\ media_resp # None =>
            /\ uploads = <<file_path>>
            /\ IF media_resp[1].status_code # 200
                 THEN RaisedFor(media_resp[1])
                 ELSE /\ sp_pc = "returned"
                      /\ sp_error = None
                      /\ sp_result # None
                      /\ MediaFieldsMatch(sp_result[1], media_resp[1].json)
  /\ op = "send_post" =>
       /\ Len(uploads) <= Len(FilesToHandle)
       /\ (media_resp # None /\ media_resp[1].status_code # 200) => RaisedFor(media_resp[1])

\* send_post raised for a 201 response of /api/v1/statuses after one upload
C4_Witness ==
  /\ op = "send_post" /\ Len(uploads) = 1 /\ status_resp # None
  /\ status_resp[1].status_code = 201 /\ sp_pc = "raised"

\* C5: send_post uploads no all-digit media reference and forwards each as its
\* integer value in the payload's media_ids, in the order of media_files.
C5_NumericRefsForwarded ==
  op = "send_post" =>
    /\ \A k \in 1..Len(uploads) : uploads[k] \notin {<<"7">>, <<"1", "2">>}
    /\ Len(media_src) = Len(media_ids)
    /\ \A k \in 1..Len(media_src) : \A l \in 1..Len(media_src) :
         k < l => media_src[k] < media_src[l]
    /\ \A j \in 1..media_i :
         FilesToHandle[j] \in {<<"7">>, <<"1", "2">>} =>
           \E k \in 1..Len(media_src) :
             media_src[k] = j /\ media_ids[k] = RefValue(FilesToHandle[j])
    /\ payload # None => (media_i = Len(FilesToHandle) /\ payload[1].media_ids = media_ids)

\* a payload with an uploaded id followed by a forwarded one
C5_Witness ==
  /\ payload # None /\ media_files = <<(<<(<<"a">>), (<<"1", "2">>)>>)>>
  /\ uploads = <<(<<"a">>)>> /\ payload[1].media_ids = <<123, 12>>

\* the post the for loop of pull_statuses stands at
AtPost == posts[post_i + 1]

\* C6: once pull_statuses reaches a post created at or before created_after, the
\* generator ends normally, neither that post nor a later one of the page is
\* yielded, and no further statuses request is issued.
C6_StopsAtCutoff ==
  (/\ created_after # None /\ post_i < Len(posts)
   /\ AtPost.created_at <= created_after[1]
   /\ pl_pc # "posts") =>
    /\ pl_pc = "done"
    /\ \A k \in 1..Len(pl_yielded) : pl_yielded[k].created_at > created_after[1]
    /\ post_i <= Len(pl_yielded)
    /\ SubSeq(pl_yielded, Len(pl_yielded) - post_i + 1, Len(pl_yielded)) = SubSeq(posts, 1, post_i)

\* C7: whatever the HTTP collaborator does and whatever a page holds, iterating
\* pull_statuses yields posts or ends; no exception reaches the consumer.
C7_NeverRaises == pl_pc # "raised"

\* a search body that is empty or whose values are all empty
AllFalsy(r) == \A k \in DOMAIN r : Len(r[k]) = 0

\* C10: search ends at a page that is empty or whose values are all falsy, even
\* with the offset still below the limit: that page is not yielded and no request
\* follows it; every other page is yielded.
C10_StopsAtEmptyPage ==
  search_resp # None =>
    IF AllFalsy(search_resp[1])
      THEN s_pc = "done" /\ Len(search_yielded) = n_search - 1
      ELSE /\ Len(search_yielded) = n_search
           /\ search_yielded[n_search] = search_resp[1]

\* the second page has keys but no values, and the offset is still below the limit
C10_Witness ==
  /\ s_pc = "done" /\ n_search = 2 /\ offset < limit /\ search_resp # None
  /\ search_resp[1] = [accounts |-> <<>>, statuses |-> <<>>, hashtags |-> <<>>]
  /\ Len(search_yielded) = 1

\* the header set a client built from the given token holds
ClientHeaderKeys == {"Accept", "User-Agent", "Authorization", "Origin", "Referer"}

\* C11: an empty token makes the constructor raise ValueError and no client (no
\* header set, no request) ever exists; a non-empty token never raises, the client's
\* Authorization header is "Bearer " followed by the token, the client's header set
\* stays the one assigned at construction (no Content-Type entry appears in it), and
\* every request carries every header of that set with its value.
C11_HeadersFixedAtConstruction ==
  /\ auth_bearer = <<>> => cl_pc # "ready" /\ headers = None /\ req = None
  /\ cl_pc = "raised" =>
       auth_bearer = <<>> /\ cl_exc # None /\ cl_exc[1].class = "ValueError"
  /\ auth_bearer # <<>> => cl_pc # "raised" /\ cl_exc = None
  /\ cl_pc = "ready" =>
       /\ headers # None
       /\ DOMAIN headers[1] = ClientHeaderKeys
       /\ headers[1]["Authorization"] = <<"B", "e", "a", "r", "e", "r", " ">> \o auth_bearer
       /\ headers[1]["Accept"] = AcceptAll
       /\ headers[1]["User-Agent"] = UserAgent
       /\ headers[1]["Origin"] = BASE_URL
       /\ headers[1]["Referer"] = BASE_URL
  /\ req # None =>
       /\ cl_pc = "ready"
       /\ \A k \in ClientHeaderKeys :
            k \in DOMAIN req[1].headers /\ req[1].headers[k] = headers[1][k]

\* a client with a token of two characters has issued a request and then the status
\* POST of send_post, whose headers carry the added Content-Type
C11_Witness ==
  /\ cl_pc = "ready" /\ Len(auth_bearer) = 2 /\ n_requests = 2 /\ req # None
  /\ req[1].site = "send_post"
  /\ "Content-Type" \in DOMAIN req[1].headers
  /\ "Content-Type" \notin DOMAIN headers[1]

\* the references of fs that are not all digits, in order
NonNumeric(fs) == SelectSeq(fs, LAMBDA f : ~isdigit(f))

\* the first n references of media_files
FirstRefs(n) == SubSeq(FilesToHandle, 1, n)

\* C12: in send_post every upload that let the loop go on was answered 200; the
\* status POST is issued at most once and only when every non-numeric reference
\* was POSTed to /api/v1/media, in list order; when an upload raises (the file
\* does not open, or the response is not 200) send_post raises that very error,
\* no status POST is issued, no reference after the failing one is uploaded, and
\* the uploads made before it remain.
C12_UploadsBeforePost ==
  op = "send_post" =>
    /\ n_status_posts <= 1
    /\ sp_pc = "media" /\ media_resp # None => media_resp[1].status_code = 200
    /\ sp_pc = "media" => n_status_posts = 0 /\ uploads = NonNumeric(FirstRefs(media_i))
    /\ n_status_posts = 1 =>
         /\ media_i = Len(FilesToHandle)
         /\ uploads = NonNumeric(FilesToHandle)
         /\ media_resp # None => media_resp[1].status_code = 200
    /\ sp_pc = "raised" /\ n_status_posts = 0 =>
         /\ media_i < Len(FilesToHandle)
         /\ ~isdigit(FilesToHandle[media_i + 1])
         /\ payload = None /\ status_resp = None /\ sp_result = None
         /\ sp_error # None
         /\ \/ /\ sp_error[1].class = "FileNotFoundError"
               /\ uploads = NonNumeric(FirstRefs(media_i))
            \/ /\ sp_error[1].class = "TruthSocialAPIError"
               /\ media_resp # None
               /\ media_resp[1].status_code # 200
               /\ sp_error[1].status_code = media_resp[1].status_code
               /\ sp_error[1].message = media_resp[1].text
               /\ uploads = NonNumeric(FirstRefs(media_i + 1))

\* of two file references the first was uploaded with a 200 response and the
\* second was answered with another status: send_post raised without a status POST
C12_Witness ==
  /\ op = "send_post" /\ sp_pc = "raised" /\ n_status_posts = 0
  /\ Len(FilesToHandle) = 2 /\ media_i = 1 /\ Len(uploads) = 2
  /\ Len(media_ids) = 1
  /\ media_resp # None /\ media_resp[1].status_code # 200

\* the least integer not below a / b, for b >= 1
CeilDiv(a, b) == (a + b - 1) \div b

\* C13: a search called with an offset >= 0 issues at most one request and yields
\* at most one page, whatever the limit and the responses; with an offset >= limit
\* it issues none; more than one request takes a negative offset, and for a limit
\* >= 1 the requests then number at most ceil((limit - offset) / limit).
C13_AtMostOneRequest ==
  /\ offset_arg >= 0 => n_search <= 1 /\ Len(search_yielded) <= 1
  /\ offset_arg >= limit => n_search = 0 /\ search_yielded = <<>>
  /\ n_search > 1 => offset_arg < 0
  /\ offset_arg < 0 /\ limit >= 1 => n_search <= CeilDiv(limit - offset_arg, limit)

\* a search from offset 0 with a limit of two or more got a page with results,
\* yielded it, and ended at the loop test after that single request
C13_Witness ==
  /\ offset_arg = 0 /\ limit >= 2 /\ s_pc = "done" /\ n_search = 1
  /\ offset >= limit
  /\ Len(search_yielded) = 1 /\ ~AllFalsy(search_yielded[1])

====
